---- MODULE Spec2Model ----
(***************************************************************************)
(* Device presence and activity-reporting engine of the ChromeExt          *)
(* background service worker (src/unnamed/part_001, the most complete      *)
(* variant of background.js) together with the popup that signals it       *)
(* (src/utils/storage.js lines 23-163).                                    *)
(*                                                                         *)
(* The worker is single threaded: every action below is one macrotask      *)
(* (an event listener, or the callback of one asynchronous host call)      *)
(* followed by the microtasks it releases.  A logical task that waits for  *)
(* a host call is a record in "tasks"; its pc names the call it awaits.    *)
(***************************************************************************)
EXTENDS Integers, Sequences, FiniteSets, TLC

(* ------------------------------ bounds -------------------------------- *)
MaxTasks == 2        \* logical tasks that may be suspended at one time
MaxMsgs == 1         \* runtime messages in flight from the popup
MaxHist == 3         \* events remembered for the watched tab

(* ------------------------------ values -------------------------------- *)
Tabs == {1, 2}
NoURL == ""                          \* tab.url undefined or empty
URLs == {"a", "b"}
NoToken == "none"
Tokens == {"t1"}
NoId == "absent"
BadId == "not-a-uuid"
PaddedId == " u1 "                   \* a UUID stored with surrounding blanks
UUIDs == {"u1", "u2", "u3"}
Null == 0                            \* heartbeatIntervalId === null
NoTab == 0
Production == "PRODUCTION"        \* SERVERS.PRODUCTION
LocalDev == "LOCAL"               \* SERVERS.LOCAL
Servers == {Production, LocalDev}
NoCfg == "unset"
Unserved == "unserved"               \* the host has not yet read the value asked for

VARIABLES
  isAuthenticated,       \* part_001:28
  heartbeatIntervalId,   \* part_001:23
  isWindowFocused,       \* part_001:24
  API_BASE,              \* part_001:6
  lastURLMap,            \* part_001:329
  intervals,             \* host table of live setInterval timers of the worker
  alarmArmed,            \* host alarm HEARTBEAT_ALARM exists (durable)
  startRead,             \* the start-up token read of part_001:294 is pending
  serverLoad,            \* the start-up getCurrentServer of part_001:9 is pending
  authToken,             \* chrome.storage.local authToken
  deviceId,              \* chrome.storage.local device_id
  serverConfig,          \* chrome.storage.local serverConfig
  msgs,                  \* runtime messages sent by the popup, not yet handled
  tasks,                 \* suspended logical tasks of the worker
  startToken,            \* the result the host holds ready for the start-up token read
  notifications,         \* host: messages of the notifications created
  uncaught,              \* host: a promise rejection of the worker went unhandled
  openTabs,              \* host: ids of the tabs that are open
  hist                   \* history: the latest report and erase events of the watched tab

vars == <<isAuthenticated, heartbeatIntervalId, isWindowFocused, API_BASE,
          lastURLMap, intervals, alarmArmed, startRead, serverLoad,
          authToken, deviceId, serverConfig, msgs, tasks, hist,
          startToken, notifications, uncaught, openTabs>>

memVars == <<isAuthenticated, heartbeatIntervalId, isWindowFocused, API_BASE,
             lastURLMap, intervals, startRead, serverLoad>>
storeVars == <<authToken, deviceId, serverConfig>>
hostVars == <<startToken, notifications, uncaught, openTabs>>

(* ------------------------------ helpers ------------------------------- *)
\* The regular expression of part_001:43 on the values of the model.
IsValidUUID(id) == id \in UUIDs

\* String.prototype.trim (part_001:42, 440, 441) on the values of the model.
trim(str) ==
  CASE str = PaddedId -> "u1"
    [] str = "  " -> ""
    [] str = " hi " -> "hi"
    [] OTHER -> str

\* What a request can come back with: fetch rejects, or the server answers
\* with a success or an error status and a body that parses as JSON or does
\* not; a parsed body has the fields show_notification and response.
Missing == "<missing>"               \* data.response is undefined
NonString == "<number>"              \* data.response is not a string
ResponseFields == {Missing, NonString, "", "  ", " hi ", "hi"}
Response(net, parsed, show, response) ==
  [net |-> net, parsed |-> parsed, show |-> show, response |-> response]
Rejected == Response("reject", FALSE, FALSE, Missing)
Success == Response("ok", TRUE, FALSE, Missing)
Responses ==
  {Rejected}
  \cup {Response(net, FALSE, FALSE, Missing) : net \in {"ok", "status"}}
  \cup {Response(net, TRUE, show, response) :
          net \in {"ok", "status"}, show \in BOOLEAN, response \in ResponseFields}

\* A suspended logical task.
Task(kind, pc, src, tok, dev, url, foc, tab, base) ==
  [kind |-> kind, pc |-> pc, src |-> src, tok |-> tok, dev |-> dev,
   url |-> url, foc |-> foc, tab |-> tab, base |-> base]

NoFoc == "unset"                     \* details.focused not given
FocStr(b) == IF b THEN "true" ELSE "false"
NoBase == "unsent"
LastError == "lastError"             \* chrome.runtime.lastError is set
\* <<changeInfo.status, tab.url>> of an onUpdated event.
TabChanges == {<<"loading", NoURL>>, <<"complete", NoURL>>}
              \cup {<<"complete", u>> : u \in URLs}
PageURL == "page"                    \* result.url || currentURL of a captured page
InstalledId == "u1"                  \* a device id generated at install time

Room(n) == Cardinality(tasks) + n <= MaxTasks

Max(S) == CHOOSE x \in S : \A y \in S : y <= x

\* setInterval returns an id no live timer has.
setInterval(ivs) == Max(ivs \cup {0}) + 1

EmptyMap == [t \in Tabs |-> NoURL]

\* The history follows one tab; the code treats all tab ids alike.
Watched == CHOOSE t \in Tabs : TRUE
Removed == "removed"                 \* the entry was erased by onRemoved
Cleared == "cleared"                 \* the entry was erased by lastURLMap.clear()

\* Remember one more event, keeping the last MaxHist.
Remember(h, e) ==
  LET s == Append(h, e)
  IN IF Len(s) > MaxHist THEN Tail(s) ELSE s

\* Remember that a recorded entry was erased: what came before the URL that
\* was recorded is forgotten.
Erased(h, why) ==
  IF h # <<>> /\ h[Len(h)] \in URLs THEN <<h[Len(h)], why>> ELSE h

\* The history after a report or an erase that concerns tab tabId.
Track(tabId, h) == IF tabId = Watched THEN h ELSE hist

\* The worker right after its module was evaluated (part_001:6-29, 294, 329),
\* on an installation whose storage holds token and id.
WorkerStart(token, id, alarm) ==
  /\ isAuthenticated = FALSE
  /\ heartbeatIntervalId = Null
  /\ isWindowFocused = TRUE
  /\ API_BASE = Production
  /\ lastURLMap = EmptyMap
  /\ intervals = {}
  /\ alarmArmed = alarm
  /\ startRead = TRUE
  /\ serverLoad = TRUE
  /\ authToken = token
  /\ deviceId = id
  /\ serverConfig = NoCfg
  /\ msgs = <<>>
  /\ tasks = {}
  /\ hist = <<>>
  /\ startToken = Unserved
  /\ notifications = {}
  /\ uncaught = FALSE
  /\ openTabs = Tabs

\* A new installation: nothing is stored, or a device id that is not in the
\* canonical shape is.
Init == \E id \in {NoId, BadId, PaddedId} : WorkerStart(NoToken, id, FALSE)

\* A logged-out installation whose device id was generated at install time.
InitInstalled == WorkerStart(NoToken, InstalledId, FALSE)

\* A restarted worker of an installation that logged in earlier.
InitLoggedIn == \E tk \in Tokens : WorkerStart(tk, InstalledId, TRUE)

(* ------------------------- pure parts of the code --------------------- *)
shouldReport_NoEmptyCheck(currentURL, lastURL) == currentURL # lastURL
shouldReport_NoDedup(currentURL, lastURL) == currentURL # NoURL

\* part_001:371, the dedup decision of processTabUpdate.
shouldReport(currentURL, lastURL) == currentURL # NoURL /\ currentURL # lastURL

mapSet_Skipped(map, tabId, url) == map

\* part_001:375, lastURLMap.set(tabId, currentURL).
mapSet(map, tabId, url) == [map EXCEPT ![tabId] = url]

mapDelete_Skipped(map, tabId) == map

\* part_001:464, lastURLMap.delete(tabId).
mapDelete(map, tabId) == [map EXCEPT ![tabId] = NoURL]

mapClear_Skipped(map) == map

\* part_001:316 and 470, lastURLMap.clear().
mapClear(map) == [t \in Tabs |-> NoURL]

\* The state the scheduler functions can reach: the alarm of the host, the
\* timer handle, the live timers of the host, and the module variables
\* isAuthenticated and lastURLMap.
Engine ==
  [alarm |-> alarmArmed, id |-> heartbeatIntervalId, ivs |-> intervals,
   auth |-> isAuthenticated, map |-> lastURLMap]

scheduleHeartbeat_NoGuard(e) ==
  [e EXCEPT !.alarm = TRUE,
            !.id = setInterval(e.ivs),
            !.ivs = e.ivs \cup {setInterval(e.ivs)}]

scheduleHeartbeat_AlarmOnly(e) == [e EXCEPT !.alarm = TRUE]

\* part_001:265-275.
scheduleHeartbeat(e) ==
  [e EXCEPT !.alarm = TRUE,
            !.id = IF e.id = Null THEN setInterval(e.ivs) ELSE e.id,
            !.ivs = IF e.id = Null THEN e.ivs \cup {setInterval(e.ivs)} ELSE e.ivs]

clearHeartbeat_Logout(e) ==
  [e EXCEPT !.alarm = FALSE,
            !.id = Null,
            !.ivs = IF e.id # Null THEN e.ivs \ {e.id} ELSE e.ivs,
            !.auth = FALSE,
            !.map = [t \in Tabs |-> NoURL]]

clearHeartbeat_KeepsAlarm(e) ==
  [e EXCEPT !.id = Null,
            !.ivs = IF e.id # Null THEN e.ivs \ {e.id} ELSE e.ivs]

clearHeartbeat_AlarmOnly(e) == [e EXCEPT !.alarm = FALSE]

clearHeartbeat_Creates(e) ==
  [e EXCEPT !.alarm = TRUE,
            !.id = Null,
            !.ivs = IF e.id # Null THEN e.ivs \ {e.id} ELSE e.ivs]

\* part_001:277-283.
clearHeartbeat(e) ==
  [e EXCEPT !.alarm = FALSE,
            !.id = Null,
            !.ivs = IF e.id # Null THEN e.ivs \ {e.id} ELSE e.ivs]

\* part_001:483.
focusedOf(windowId) == windowId # "WINDOW_ID_NONE"

\* part_001:14-17 (storage.js), the server a stored configuration selects.
getCurrentServer(cfg) == IF cfg = NoCfg THEN Production ELSE cfg

\* crypto.randomUUID(): an identifier nobody holds yet.
HeldIds == {deviceId} \cup {t.dev : t \in tasks}
FreshIds == UUIDs \ HeldIds
randomUUID_Malformed == BadId
randomUUID == CHOOSE u \in FreshIds : TRUE

(* --------------------------- task creation ---------------------------- *)
\* heartbeatWithActiveTab(): chrome.windows.getCurrent is pending (part_001:199).
HbWin(src) == Task("hb", "win", src, NoToken, NoId, NoURL, NoFoc, NoTab, NoBase)
\* sendHeartbeat(details) past its gate: getAuthToken is pending (part_001:105).
HbTok(src, url, foc) == Task("hb", "tok", src, NoToken, NoId, url, foc, NoTab, NoBase)
\* getOrCreateDeviceId() called for logging only (part_001:288, 301).
DidTask(src) == Task("did", "did", src, NoToken, NoId, NoURL, NoFoc, NoTab, NoBase)
\* sendLogout(): getAuthToken is pending (part_001:233).  src remembers
\* whether the logout signal ended an authenticated session.
LogoutTask(session) ==
  Task("logout", "tok", IF session THEN "session" ELSE "nosession",
       NoToken, NoId, NoURL, NoFoc, NoTab, NoBase)
\* chrome.tabs.get is pending (part_001:337).
TabGetTask(tab) == Task("tabget", "get", "tab", NoToken, NoId, NoURL, NoFoc, tab, NoBase)
\* chrome.scripting.executeScript is pending (part_001:387); the payload will
\* carry the title and URL of the page (part_001:411-415).
ScriptTask == Task("active", "script", "tab", NoToken, NoId, PageURL, NoFoc, NoTab, NoBase)
\* the /active chain of the focus listener: Promise.all is pending
\* (part_001:490).  foc is the value the listener has just given to
\* isWindowFocused (part_001:483); src remembers whether the session was
\* authenticated when the listener ran.
FocusActiveTask(windowId) ==
  Task("active", "tok", IF isAuthenticated THEN "focus" ELSE "focus-anon",
       NoToken, NoId, NoURL, FocStr(focusedOf(windowId)), NoTab, NoBase)

(* ------------------------------ the host ------------------------------ *)
\* The host stops the idle worker and a later event starts it again: the
\* module is evaluated anew (part_001:6-29, 294, 329); storage, the alarm and
\* undelivered messages survive.
FreshWorker(ts) ==
  /\ isAuthenticated' = FALSE
  /\ heartbeatIntervalId' = Null
  /\ isWindowFocused' = TRUE
  /\ API_BASE' = Production
  /\ lastURLMap' = EmptyMap
  /\ intervals' = {}
  /\ startRead' = TRUE
  /\ serverLoad' = TRUE
  /\ tasks' = ts
  /\ hist' = <<>>
  /\ startToken' = Unserved
  /\ UNCHANGED <<alarmArmed, msgs, storeVars, notifications, uncaught, openTabs>>

Restart == FreshWorker({})

\* Install, update or reload: a fresh worker whose onInstalled listeners run
\* (part_001:286-291 and 468-471).
Install == FreshWorker({DidTask("install")})

StartRead_Always ==
  /\ startRead
  /\ Room(1)
  /\ startRead' = FALSE
  /\ isAuthenticated' = TRUE
  /\ tasks' = tasks \cup {DidTask("start")}
  /\ startToken' = Unserved
  /\ UNCHANGED <<heartbeatIntervalId, isWindowFocused, API_BASE, lastURLMap,
                 intervals, alarmArmed, serverLoad, storeVars, msgs, hist,
                 notifications, uncaught, openTabs>>

\* The host reads the token for the start-up chrome.storage.local.get of
\* part_001:294 some time before it runs the callback.
StartServe ==
  /\ startRead /\ startToken = Unserved
  /\ startToken' = authToken
  /\ UNCHANGED <<memVars, alarmArmed, storeVars, msgs, tasks, hist,
                 notifications, uncaught, openTabs>>

\* result[AUTH_TOKEN_KEY] of the start-up read: what the host read for it, or
\* what the storage holds when the read is served with its callback.
StartFound == IF startToken = Unserved THEN authToken ELSE startToken

\* part_001:294-304, the callback of the start-up token read.
StartRead ==
  /\ startRead
  /\ Room(1)
  /\ startRead' = FALSE
  /\ isAuthenticated' = IF StartFound # NoToken THEN TRUE ELSE isAuthenticated
  /\ tasks' = tasks \cup {DidTask("start")}
  /\ startToken' = Unserved
  /\ UNCHANGED <<heartbeatIntervalId, isWindowFocused, API_BASE, lastURLMap,
                 intervals, alarmArmed, serverLoad, storeVars, msgs, hist,
                 notifications, uncaught, openTabs>>

\* part_001:9-17, the continuation of the start-up getCurrentServer().
ServerLoad ==
  /\ serverLoad
  /\ serverLoad' = FALSE
  /\ API_BASE' = getCurrentServer(serverConfig)
  /\ UNCHANGED <<isAuthenticated, heartbeatIntervalId, isWindowFocused,
                 lastURLMap, intervals, alarmArmed, startRead, storeVars,
                 msgs, tasks, hist>>
  /\ UNCHANGED hostVars

(* ------------------------------ the popup ----------------------------- *)
Msg(type, server) == [type |-> type, server |-> server]

\* storage.js:143-148: the token is stored, then login-success is sent.
PopupLogin(tk) ==
  /\ Len(msgs) < MaxMsgs
  /\ authToken' = tk
  /\ msgs' = Append(msgs, Msg("login-success", NoCfg))
  /\ UNCHANGED <<memVars, alarmArmed, deviceId, serverConfig, tasks, hist>>
  /\ UNCHANGED hostVars

\* storage.js:157-163: the token is removed, then logout is sent.
PopupLogout ==
  /\ Len(msgs) < MaxMsgs
  /\ authToken' = NoToken
  /\ msgs' = Append(msgs, Msg("logout", NoCfg))
  /\ UNCHANGED <<memVars, alarmArmed, deviceId, serverConfig, tasks, hist>>
  /\ UNCHANGED hostVars

\* storage.js:81-103: the selection is stored, then SERVER_CHANGED is sent.
PopupServerChange(s) ==
  /\ Len(msgs) < MaxMsgs
  /\ serverConfig' = s
  /\ msgs' = Append(msgs, Msg("SERVER_CHANGED", s))
  /\ UNCHANGED <<memVars, alarmArmed, authToken, deviceId, tasks, hist>>
  /\ UNCHANGED hostVars
(* ------------------------- listeners of the worker -------------------- *)
\* part_001:364-457, processTabUpdate(tabId, tab) run on top of the tasks
\* "rest"; it starts the heartbeat of part_001:378 and the content capture of
\* part_001:387.
processTabUpdate(tabId, url, rest) ==
  IF isAuthenticated /\ shouldReport(url, lastURLMap[tabId])
  THEN /\ Cardinality(rest) + 2 <= MaxTasks
       /\ lastURLMap' = mapSet(lastURLMap, tabId, url)
       /\ hist' = Track(tabId, Remember(hist, url))
       /\ tasks' = rest \cup {HbTok("tab", url, FocStr(isWindowFocused)),
                              ScriptTask}
  ELSE /\ tasks' = rest
       /\ UNCHANGED <<lastURLMap, hist>>

\* part_001:334-345, chrome.tabs.onActivated.
TabActivated(tabId) ==
  /\ tabId \in openTabs
  /\ Room(1)
  /\ tasks' = tasks \cup {TabGetTask(tabId)}
  /\ UNCHANGED <<memVars, alarmArmed, storeVars, msgs, hist>>
  /\ UNCHANGED hostVars

\* The host looks the tab up for the chrome.tabs.get of part_001:337 some
\* time before it runs the callback: a tab that is open is found.
TabServe(t, got) ==
  /\ t \in tasks /\ t.pc = "get"
  /\ got \in URLs \cup {NoURL, LastError}
  /\ got # LastError => t.tab \in openTabs
  /\ tasks' = (tasks \ {t}) \cup {[t EXCEPT !.pc = "got", !.url = got]}
  /\ UNCHANGED <<memVars, alarmArmed, storeVars, msgs, hist>>
  /\ UNCHANGED hostVars

\* part_001:337-344, the callback of chrome.tabs.get: lastError, or the tab,
\* as the host found it: earlier, or now when the lookup is served with its
\* callback.
TabGot(t, got) ==
  /\ t \in tasks
  /\ \/ t.pc = "get" /\ (got # LastError => t.tab \in openTabs)
     \/ t.pc = "got" /\ got = t.url
  /\ IF got = LastError
     THEN tasks' = tasks \ {t} /\ UNCHANGED <<lastURLMap, hist>>
     ELSE processTabUpdate(t.tab, got, tasks \ {t})
  /\ UNCHANGED <<isAuthenticated, heartbeatIntervalId, isWindowFocused,
                 API_BASE, intervals, alarmArmed, startRead, serverLoad,
                 storeVars, msgs>>
  /\ UNCHANGED hostVars

\* part_001:350-356, chrome.tabs.onUpdated.
TabUpdated(tabId, change) ==
  /\ tabId \in openTabs
  /\ change \in TabChanges
  /\ LET status == change[1]
         url == change[2]
     IN
     IF status = "complete" /\ url # NoURL
     THEN processTabUpdate(tabId, url, tasks)
     ELSE UNCHANGED <<tasks, lastURLMap, hist>>
  /\ UNCHANGED <<isAuthenticated, heartbeatIntervalId, isWindowFocused,
                 API_BASE, intervals, alarmArmed, startRead, serverLoad,
                 storeVars, msgs>>
  /\ UNCHANGED hostVars

\* part_001:462-465, chrome.tabs.onRemoved.
TabRemoved(tabId) ==
  /\ tabId \in openTabs
  /\ openTabs' = openTabs \ {tabId}
  /\ lastURLMap' = mapDelete(lastURLMap, tabId)
  /\ hist' = Track(tabId, Erased(hist, Removed))
  /\ UNCHANGED <<isAuthenticated, heartbeatIntervalId, isWindowFocused,
                 API_BASE, intervals, alarmArmed, startRead, serverLoad,
                 storeVars, msgs, tasks>>
  /\ UNCHANGED <<startToken, notifications, uncaught>>

\* The host opens a tab; the worker has no listener for it.
TabCreated(tabId) ==
  /\ tabId \notin openTabs
  /\ openTabs' = openTabs \cup {tabId}
  /\ UNCHANGED <<memVars, alarmArmed, storeVars, msgs, tasks, hist>>
  /\ UNCHANGED <<startToken, notifications, uncaught>>

\* part_001:481-507, chrome.windows.onFocusChanged.
FocusChanged(windowId) ==
  /\ Room(IF isAuthenticated THEN 2 ELSE 1)
  /\ isWindowFocused' = focusedOf(windowId)
  /\ tasks' = tasks \cup {FocusActiveTask(windowId)}
                    \cup (IF isAuthenticated
                          THEN {HbTok("focus", NoURL, FocStr(focusedOf(windowId)))}
                          ELSE {})
  /\ UNCHANGED <<isAuthenticated, heartbeatIntervalId, API_BASE, lastURLMap,
                 intervals, alarmArmed, startRead, serverLoad, storeVars,
                 msgs, hist>>
  /\ UNCHANGED hostVars

\* The fine interval of part_001:273 fires heartbeatWithActiveTab.
FineTick ==
  /\ intervals # {}
  /\ Room(1)
  /\ tasks' = tasks \cup {HbWin("fine")}
  /\ UNCHANGED <<memVars, alarmArmed, storeVars, msgs, hist>>
  /\ UNCHANGED hostVars

Alarm_Fallback ==
  /\ alarmArmed
  /\ heartbeatIntervalId = Null
  /\ Room(1)
  /\ tasks' = tasks \cup {HbWin("alarm")}
  /\ UNCHANGED <<memVars, alarmArmed, storeVars, msgs, hist>>
  /\ UNCHANGED hostVars

\* part_001:474-478, chrome.alarms.onAlarm for HEARTBEAT_ALARM.
Alarm ==
  /\ alarmArmed
  /\ Room(1)
  /\ tasks' = tasks \cup {HbWin("alarm")}
  /\ UNCHANGED <<memVars, alarmArmed, storeVars, msgs, hist>>
  /\ UNCHANGED hostVars

\* part_001:80-95 and 307-320: both onMessage listeners handle the message.
Deliver ==
  /\ msgs # <<>>
  /\ LET m == Head(msgs)
         restarted == scheduleHeartbeat(clearHeartbeat(Engine))
         started == scheduleHeartbeat([Engine EXCEPT !.auth = TRUE])
         cleared == clearHeartbeat([Engine EXCEPT !.auth = FALSE,
                                                  !.map = mapClear(lastURLMap)])
     IN /\ msgs' = Tail(msgs)
        /\ CASE m.type = "SERVER_CHANGED" ->
                  /\ API_BASE' = m.server
                  /\ IF isAuthenticated
                     THEN /\ alarmArmed' = restarted.alarm
                          /\ heartbeatIntervalId' = restarted.id
                          /\ intervals' = restarted.ivs
                          /\ isAuthenticated' = restarted.auth
                          /\ lastURLMap' = restarted.map
                     ELSE UNCHANGED <<alarmArmed, heartbeatIntervalId, intervals,
                                      isAuthenticated, lastURLMap>>
                  /\ UNCHANGED <<tasks, hist>>
             [] m.type = "login-success" ->
                  /\ Room(1)
                  /\ tasks' = tasks \cup {HbWin("login")}
                  /\ isAuthenticated' = started.auth
                  /\ alarmArmed' = started.alarm
                  /\ heartbeatIntervalId' = started.id
                  /\ intervals' = started.ivs
                  /\ lastURLMap' = started.map
                  /\ UNCHANGED <<API_BASE, hist>>
             [] m.type = "logout" ->
                  /\ Room(1)
                  /\ tasks' = tasks \cup {LogoutTask(isAuthenticated)}
                  /\ isAuthenticated' = cleared.auth
                  /\ lastURLMap' = cleared.map
                  /\ hist' = Erased(hist, Cleared)
                  /\ alarmArmed' = cleared.alarm
                  /\ heartbeatIntervalId' = cleared.id
                  /\ intervals' = cleared.ivs
                  /\ UNCHANGED API_BASE
  /\ UNCHANGED <<isWindowFocused, startRead, serverLoad, storeVars>>
  /\ UNCHANGED hostVars
(* -------------------- continuations of suspended tasks ---------------- *)
\* part_001:199-228, the callback of chrome.windows.getCurrent, which calls
\* sendHeartbeat(details); sendHeartbeat returns at its gate (part_001:99)
\* or goes on to await the token (part_001:105).
WinGot(t, hasWindow, url) ==
  /\ t \in tasks /\ t.pc = "win"
  /\ ~hasWindow => url = NoURL
  /\ tasks' = (tasks \ {t}) \cup
              (IF isAuthenticated
               THEN {HbTok(t.src, url,
                           IF hasWindow THEN FocStr(isWindowFocused) ELSE NoFoc)}
               ELSE {})
  /\ UNCHANGED <<memVars, alarmArmed, storeVars, msgs, hist>>
  /\ UNCHANGED hostVars

\* The callback of getAuthToken: part_001:105-109 (heartbeat), 233-247
\* (logout, which issues its request here) and 418-419, 490-491 (/active,
\* whose Promise.all also awaits the device id).
TokGot(t) ==
  /\ t \in tasks /\ t.pc = "tok"
  /\ tasks' = (tasks \ {t}) \cup
       (CASE t.kind = "hb" ->
               IF authToken = NoToken THEN {}
               ELSE {[t EXCEPT !.pc = "did", !.tok = authToken]}
          [] t.kind = "logout" ->
               IF authToken = NoToken THEN {}
               ELSE {[t EXCEPT !.pc = "resp", !.tok = authToken, !.base = API_BASE]}
          [] OTHER -> {[t EXCEPT !.pc = "did", !.tok = authToken]})
  /\ UNCHANGED <<memVars, alarmArmed, storeVars, msgs, hist>>
  /\ UNCHANGED hostVars

Resolved_RawStored(t, id) ==
  CASE t.kind = "did" -> {}
    [] t.kind = "hb" -> {[t EXCEPT !.pc = "resp", !.dev = deviceId, !.base = API_BASE]}
    [] OTHER ->
         IF t.tok = NoToken THEN {}
         ELSE {[t EXCEPT !.pc = "resp", !.dev = deviceId, !.base = API_BASE,
                         !.foc = FocStr(isWindowFocused)]}

\* What a task does once getOrCreateDeviceId() has resolved to id: the
\* callers of part_001:288 and 301 only log; sendHeartbeat issues its request
\* (part_001:143); the /active chains check the token and issue theirs
\* (part_001:422-436, 494-502).
Resolved(t, id) ==
  CASE t.kind = "did" -> {}
    [] t.kind = "hb" -> {[t EXCEPT !.pc = "resp", !.dev = id, !.base = API_BASE]}
    [] OTHER ->
         IF t.tok = NoToken THEN {}
         ELSE {[t EXCEPT !.pc = "resp", !.dev = id, !.base = API_BASE,
                         !.foc = FocStr(isWindowFocused)]}

\* part_001:40-54: the identifier a storage read that finds store yields,
\* NoId when the call goes on to generate one.
storedDeviceId(store) ==
  IF store # NoId /\ IsValidUUID(trim(store)) THEN trim(store) ELSE NoId

\* part_001:39-59, the callback of the storage read of getOrCreateDeviceId.
DidGot(t) ==
  /\ t \in tasks /\ t.pc = "did"
  /\ IF storedDeviceId(deviceId) # NoId
     THEN tasks' = (tasks \ {t}) \cup Resolved(t, storedDeviceId(deviceId))
     ELSE /\ FreshIds # {}
          /\ tasks' = (tasks \ {t}) \cup {[t EXCEPT !.pc = "set", !.dev = randomUUID]}
  /\ UNCHANGED <<memVars, alarmArmed, storeVars, msgs, hist>>
  /\ UNCHANGED hostVars

\* part_001:59-74, the callback of the storage write of getOrCreateDeviceId;
\* the write took effect unless chrome.runtime.lastError is set.
DidSet(t, stored) ==
  /\ t \in tasks /\ t.pc = "set"
  /\ deviceId' = IF stored THEN t.dev ELSE deviceId
  /\ tasks' = (tasks \ {t}) \cup Resolved(t, t.dev)
  /\ UNCHANGED <<memVars, alarmArmed, authToken, serverConfig, msgs, hist>>
  /\ UNCHANGED hostVars

ScriptGot_Retry(t, hasResult) ==
  /\ t \in tasks /\ t.pc = "script"
  /\ tasks' = (tasks \ {t}) \cup
              (IF hasResult THEN {[t EXCEPT !.pc = "tok"]} ELSE {})
  /\ lastURLMap' = IF hasResult THEN lastURLMap ELSE mapClear(lastURLMap)
  /\ UNCHANGED <<isAuthenticated, heartbeatIntervalId, isWindowFocused,
                 API_BASE, intervals, startRead, serverLoad, alarmArmed,
                 storeVars, msgs, hist>>
  /\ UNCHANGED hostVars

\* part_001:401-407, the callback of executeScript: an error or no result
\* ends the chain, a result starts the Promise.all of part_001:418.
ScriptGot(t, hasResult) ==
  /\ t \in tasks /\ t.pc = "script"
  /\ tasks' = (tasks \ {t}) \cup
              (IF hasResult THEN {[t EXCEPT !.pc = "tok"]} ELSE {})
  /\ UNCHANGED <<memVars, alarmArmed, storeVars, msgs, hist>>
  /\ UNCHANGED hostVars

\* part_001:143-156 and 178-192: sendHeartbeat throws when fetch rejects or
\* the status is not a success; a body that does not parse is tolerated.
heartbeatThrows(r) == r.net # "ok"

\* The callers of sendHeartbeat that handle its rejection: part_001:202 and
\* 222-226 (heartbeatWithActiveTab) and 486 (focus); the call of part_001:378
\* (processTabUpdate) has no handler.
catches(src) == src # "tab"

shouldNotify_NoTrim(r) ==
  /\ r.net # "reject" /\ r.parsed
  /\ r.show
  /\ r.response \notin {Missing, NonString, ""}

\* part_001:438-442: resp.json() succeeded and the data asks for a
\* notification with a string that is not blank.
shouldNotify(r) ==
  /\ r.net # "reject" /\ r.parsed
  /\ r.show
  /\ r.response \notin {Missing, NonString, ""}
  /\ trim(r.response) # ""

Responded_LogsOut(t, r) ==
  /\ t \in tasks /\ t.pc = "resp"
  /\ tasks' = tasks \ {t}
  /\ isAuthenticated' = (isAuthenticated /\ r.net = "ok")
  /\ uncaught' = uncaught
  /\ notifications' = notifications
  /\ openTabs' = openTabs
  /\ UNCHANGED <<heartbeatIntervalId, isWindowFocused, API_BASE, lastURLMap,
                 intervals, startRead, serverLoad, alarmArmed, storeVars, msgs,
                 hist, startToken>>

\* A request issued by fetch settles with r: part_001:152-192 (heartbeat),
\* 248-262 (logout), 437-448 (/active of a tab report), 495-505 (/active of a
\* focus change).
Responded(t, r) ==
  /\ t \in tasks /\ t.pc = "resp"
  /\ r \in Responses
  /\ tasks' = tasks \ {t}
  /\ uncaught' = (uncaught \/ (t.kind = "hb" /\ heartbeatThrows(r) /\ ~catches(t.src)))
  /\ notifications' =
       IF t.kind = "active" /\ t.src = "tab" /\ shouldNotify(r)
       THEN notifications \cup {trim(r.response)}
       ELSE notifications
  /\ UNCHANGED <<memVars, alarmArmed, storeVars, msgs, hist, startToken, openTabs>>

(* ---------------------------- specifications -------------------------- *)
\* The auth gate and the heartbeat scheduler under the signals of the popup,
\* the two ticks, focus changes and worker restarts.
Next ==
  \/ StartRead
  \/ ServerLoad
  \/ \E tk \in Tokens : PopupLogin(tk)
  \/ PopupLogout
  \/ \E s \in Servers : PopupServerChange(s)
  \/ Deliver
  \/ \E windowId \in {"WINDOW_ID_NONE", "w1"} : FocusChanged(windowId)
  \/ FineTick
  \/ Alarm
  \/ \E t \in tasks, hasWindow \in BOOLEAN : WinGot(t, hasWindow, NoURL)
  \/ \E t \in tasks : TokGot(t)
  \/ \E t \in tasks : DidGot(t)
  \/ \E t \in tasks : Responded(t, Success)
  \/ Restart

Spec == InitInstalled /\ [][Next]_vars

\* The heartbeat scheduler under the signals of the popup, the two ticks and
\* worker restarts.
NextSched ==
  \/ StartRead
  \/ ServerLoad
  \/ \E tk \in Tokens : PopupLogin(tk)
  \/ PopupLogout
  \/ \E s \in Servers : PopupServerChange(s)
  \/ Deliver
  \/ FineTick
  \/ Alarm
  \/ \E t \in tasks, hasWindow \in BOOLEAN : WinGot(t, hasWindow, NoURL)
  \/ \E t \in tasks : TokGot(t)
  \/ \E t \in tasks : DidGot(t)
  \/ \E t \in tasks : Responded(t, Success)
  \/ Restart

SpecSched == InitInstalled /\ [][NextSched]_vars

\* The dedup cache of a logged-in installation under the events of its tabs
\* and worker restarts.
NextDedup ==
  \/ StartRead
  \/ \E tabId \in Tabs : TabActivated(tabId)
  \/ \E t \in tasks, got \in URLs \cup {NoURL, LastError} : TabGot(t, got)
  \/ \E tabId \in Tabs, change \in TabChanges : TabUpdated(tabId, change)
  \/ \E tabId \in Tabs : TabRemoved(tabId)
  \/ \E tabId \in Tabs : TabCreated(tabId)
  \/ \E t \in tasks, hasResult \in BOOLEAN : ScriptGot(t, hasResult)
  \/ \E t \in tasks : TokGot(t)
  \/ \E t \in tasks : DidGot(t)
  \/ \E t \in tasks : Responded(t, Success)
  \/ Restart

SpecDedup == InitLoggedIn /\ [][NextDedup]_vars

\* The dedup cache of one tab under login and logout.
NextLogout ==
  \/ StartRead
  \/ \E tk \in Tokens : PopupLogin(tk)
  \/ PopupLogout
  \/ Deliver
  \/ \E tabId \in {Watched} : TabActivated(tabId)
  \/ \E t \in tasks, got \in URLs \cup {NoURL, LastError} : TabGot(t, got)
  \/ \E tabId \in {Watched}, change \in TabChanges : TabUpdated(tabId, change)
  \/ \E t \in tasks, hasWindow \in {TRUE} : WinGot(t, hasWindow, NoURL)
  \/ \E t \in tasks, hasResult \in BOOLEAN : ScriptGot(t, hasResult)
  \/ \E t \in tasks : TokGot(t)
  \/ \E t \in tasks : DidGot(t)
  \/ \E t \in tasks : Responded(t, Success)
  \/ Restart

SpecLogout == InitInstalled /\ [][NextLogout]_vars

\* A logged-in installation under server changes, with the reports of one
\* tab, focus changes and worker restarts.
NextServer ==
  \/ StartRead
  \/ ServerLoad
  \/ \E s \in Servers : PopupServerChange(s)
  \/ Deliver
  \/ \E windowId \in {"WINDOW_ID_NONE", "w1"} : FocusChanged(windowId)
  \/ \E tabId \in {Watched}, change \in TabChanges : TabUpdated(tabId, change)
  \/ \E t \in tasks, hasResult \in BOOLEAN : ScriptGot(t, hasResult)
  \/ \E t \in tasks : TokGot(t)
  \/ \E t \in tasks : DidGot(t)
  \/ \E t \in tasks : Responded(t, Success)
  \/ Restart

SpecServer == InitLoggedIn /\ [][NextServer]_vars

\* The device identity of a new installation: overlapping calls of
\* getOrCreateDeviceId by the install and start-up callers, by the heartbeat
\* of a login and by the /active report of a focus change, with storage
\* writes that may fail.
NextDevice ==
  \/ Install
  \/ StartRead
  \/ \E tk \in Tokens : PopupLogin(tk)
  \/ Deliver
  \/ \E windowId \in {"WINDOW_ID_NONE", "w1"} : FocusChanged(windowId)
  \/ \E t \in tasks, hasWindow \in BOOLEAN : WinGot(t, hasWindow, NoURL)
  \/ \E t \in tasks : TokGot(t)
  \/ \E t \in tasks : DidGot(t)
  \/ \E t \in tasks, stored \in BOOLEAN : DidSet(t, stored)
  \/ \E t \in tasks : Responded(t, Success)
  \/ Restart

SpecDevice == Init /\ [][NextDevice]_vars

\* The start-up token read of a worker that the host restarts, served by the
\* host before its callback runs, against the logins and logouts of the popup.
NextSync ==
  \/ StartServe
  \/ StartRead
  \/ \E tk \in Tokens : PopupLogin(tk)
  \/ PopupLogout
  \/ Deliver
  \/ \E t \in tasks, hasWindow \in BOOLEAN : WinGot(t, hasWindow, NoURL)
  \/ \E t \in tasks : TokGot(t)
  \/ \E t \in tasks : DidGot(t)
  \/ \E t \in tasks : Responded(t, Success)
  \/ Restart

SpecSync == InitInstalled /\ [][NextSync]_vars

\* The tabs of a logged-in installation that open and close while the
\* lookups of their activation events are pending, each lookup served by the
\* host before its callback runs.
NextTabs ==
  \/ StartRead
  \/ \E tabId \in Tabs : TabCreated(tabId)
  \/ \E tabId \in Tabs : TabActivated(tabId)
  \/ \E t \in tasks, got \in URLs \cup {NoURL, LastError} : TabServe(t, got)
  \/ \E t \in tasks, got \in URLs \cup {NoURL, LastError} : TabGot(t, got)
  \/ \E tabId \in Tabs, change \in TabChanges : TabUpdated(tabId, change)
  \/ \E tabId \in Tabs : TabRemoved(tabId)
  \/ \E t \in tasks, hasResult \in BOOLEAN : ScriptGot(t, hasResult)
  \/ \E t \in tasks : TokGot(t)
  \/ \E t \in tasks : DidGot(t)
  \/ \E t \in tasks : Responded(t, Success)
  \/ Restart

SpecTabs == InitLoggedIn /\ [][NextTabs]_vars

\* The reports of one tab of a logged-in installation, whose requests settle
\* in every way, next to the durable alarm and a logout.
NextReport ==
  \/ StartRead
  \/ PopupLogout
  \/ Deliver
  \/ Alarm
  \/ \E tabId \in {Watched}, change \in TabChanges : TabUpdated(tabId, change)
  \/ \E t \in tasks, hasWindow \in {TRUE} : WinGot(t, hasWindow, NoURL)
  \/ \E t \in tasks, hasResult \in BOOLEAN : ScriptGot(t, hasResult)
  \/ \E t \in tasks : TokGot(t)
  \/ \E t \in tasks : DidGot(t)
  \/ \E t \in tasks, r \in Responses : Responded(t, r)
  \/ Restart

SpecReport == InitLoggedIn /\ [][NextReport]_vars

(* ------------------------------ dedup cache --------------------------- *)
\* processTabUpdate(tabId, tab) is called in this step with tab.url = url:
\* by onUpdated (never with an empty URL) or by the callback of tabs.get.
Invokes(tabId, url) ==
  \/ url # NoURL /\ TabUpdated(tabId, <<"complete", url>>)
  \/ \E t \in tasks : t.pc = "get" /\ t.tab = tabId /\ TabGot(t, url)

\* This step reports url for tabId: the cache records it and the heartbeat
\* and the content capture of the report start.
Reported(tabId, url) ==
  /\ lastURLMap'[tabId] = url
  /\ \A other \in Tabs \ {tabId} : lastURLMap'[other] = lastURLMap[other]
  /\ HbTok("tab", url, FocStr(isWindowFocused)) \in tasks'
  /\ ScriptTask \in tasks'

\* This step reports nothing: the cache is as it was and no task starts.
NotReported ==
  /\ lastURLMap' = lastURLMap
  /\ tasks' \subseteq tasks

HasEntry(tabId) == lastURLMap[tabId] # NoURL

\* The last two events of the history are: url was reported, then the entry
\* was erased for the reason why.
ErasedAfter(url, why) ==
  /\ Len(hist) >= 2
  /\ hist[Len(hist)] = why
  /\ hist[Len(hist) - 1] = url

\* The history shows: url reported, the entry erased for the reason why, url
\* reported again.
ReportedAgainAfter(why) ==
  \E i \in 1..(Len(hist) - 2) :
    /\ hist[i] \in URLs
    /\ hist[i + 1] = why
    /\ hist[i + 2] = hist[i]

\* C3: while authenticated, a call of processTabUpdate(tabId, tab) reports
\* iff tab.url is non-empty and differs from the URL recorded for tabId (no
\* entry differs from every URL); only the recorded URL is compared, so a tab
\* navigating a, b, a is reported three times.
C3_ReportDueIff ==
  [][\A tabId \in Tabs, url \in URLs \cup {NoURL} :
       (isAuthenticated /\ Invokes(tabId, url)) =>
         IF url # NoURL /\ url # lastURLMap[tabId]
         THEN Reported(tabId, url)
         ELSE NotReported]_vars

C3_Witness == hist = <<"a", "b", "a">>

\* C4 as stated: the decision is negative iff url equals the URL recorded for
\* tabId, for every url that reaches it, the empty one included.
C4_NegativeIffEqual ==
  [][\A tabId \in Tabs, url \in URLs \cup {NoURL} :
       (isAuthenticated /\ Invokes(tabId, url)) =>
         (NotReported <=> (HasEntry(tabId) /\ url = lastURLMap[tabId]))]_vars

\* C4 as amended: the decision is negative iff url is empty or equals the URL
\* recorded for tabId; it is positive in every other case, the first
\* observation of a tab with a non-empty URL included.
C4_NegativeIffEmptyOrEqual ==
  [][\A tabId \in Tabs, url \in URLs \cup {NoURL} :
       (isAuthenticated /\ Invokes(tabId, url)) =>
         /\ NotReported <=> (url = NoURL \/ (HasEntry(tabId) /\ url = lastURLMap[tabId]))
         /\ (url # NoURL /\ ~HasEntry(tabId)) => Reported(tabId, url)]_vars

\* A tab lookup is pending for a tab with a recorded URL while authenticated:
\* an empty, an equal or a different URL may reach the decision.
C4_Witness ==
  /\ isAuthenticated
  /\ \E t \in tasks : t.pc = "get" /\ HasEntry(t.tab)

C6_RemovalErasesAndReReports ==
  [][/\ \A tabId \in Tabs : TabRemoved(tabId) => ~HasEntry(tabId)'
     /\ \A url \in URLs :
          (isAuthenticated /\ ErasedAfter(url, Removed) /\ Invokes(Watched, url))
            => Reported(Watched, url)]_vars

C6_Witness == ReportedAgainAfter(Removed)

\* C7: handling logout empties the cache, and a pair reported before the
\* logout is reported again when it is first observed after a later login.
C7_LogoutClearsAndReReports ==
  [][/\ (msgs # <<>> /\ Head(msgs).type = "logout" /\ Deliver)
          => \A tabId \in Tabs : ~HasEntry(tabId)'
     /\ \A url \in URLs :
          (isAuthenticated /\ ErasedAfter(url, Cleared) /\ Invokes(Watched, url))
            => Reported(Watched, url)]_vars

C7_Witness == ReportedAgainAfter(Cleared) /\ isAuthenticated
(* ------------------------------ auth gate ----------------------------- *)
\* The requests this step issues: the tasks that now await a response.
Issued == {t \in tasks' \ tasks : t.pc = "resp"}

\* C1: no request (heartbeat, /active, logout) is issued while
\* isAuthenticated is false.
C1_NoRequestWhileUnauthenticated ==
  [][\A t \in Issued : isAuthenticated]_vars

\* C2: a durable-alarm wake-up of an installation with a stored token and no
\* logout under way leads to a heartbeat send: the heartbeat the alarm started
\* passes the gate of sendHeartbeat and goes on to read the token.
C2_AlarmWakeSends ==
  [][\A t \in tasks :
       (/\ t.pc = "win" /\ t.src = "alarm"
        /\ authToken # NoToken /\ msgs = <<>> /\ alarmArmed
        /\ \E hasWindow \in BOOLEAN : WinGot(t, hasWindow, NoURL))
       => \E n \in tasks' : n.kind = "hb" /\ n.src = "alarm" /\ n.pc = "tok"]_vars

(* ------------------------------ scheduler ----------------------------- *)
Started == heartbeatIntervalId # Null
NextSignal(type) == msgs # <<>> /\ Head(msgs).type = type

\* C8: at most one fine interval is live and it is the one
\* heartbeatIntervalId refers to; a scheduleHeartbeat on a started scheduler
\* creates no interval.
C8_OneInterval ==
  /\ Cardinality(intervals) <= 1
  /\ intervals = IF Started THEN {heartbeatIntervalId} ELSE {}
  /\ Started => scheduleHeartbeat(Engine).ivs = intervals

\* The scheduler is started and login-success is handled next, which calls
\* scheduleHeartbeat once more.
C8_Witness == Started /\ alarmArmed /\ NextSignal("login-success")

\* C9: clearHeartbeat on a scheduler that is not started changes nothing: the
\* handle stays null, the alarm stays disarmed, and isAuthenticated and the
\* dedup cache are as before.
C9_ClearWhenStoppedIsNoop ==
  (~Started /\ ~alarmArmed) => clearHeartbeat(Engine) = Engine

\* logout is the next signal to be handled, and the scheduler is not started:
\* the handler is about to call clearHeartbeat with nothing to clear.
C9_Witness ==
  /\ ~Started /\ ~alarmArmed
  /\ NextSignal("logout")

\* C10: handling login-success sets isAuthenticated, starts one immediate
\* heartbeatWithActiveTab and leaves the alarm armed and exactly one fine
\* interval live.
C10_LoginStarts ==
  [][(NextSignal("login-success") /\ Deliver) =>
       /\ isAuthenticated'
       /\ tasks' = tasks \cup {HbWin("login")}
       /\ alarmArmed'
       /\ Started'
       /\ intervals' = {heartbeatIntervalId'}]_vars

C10_Witness ==
  /\ isAuthenticated /\ alarmArmed /\ Started
  /\ HbWin("login") \in tasks
(* ------------------------------- logout ------------------------------- *)
\* C11: when the popup logs out of an authenticated session, the server is
\* notified: the sendLogout that the logout signal started reads the token
\* and issues POST /device/logout with it.
C11_LogoutNotifies ==
  [][\A t \in tasks :
       (t = LogoutTask(TRUE) /\ TokGot(t))
         => \E n \in tasks' : /\ n.kind = "logout" /\ n.pc = "resp"
                               /\ n.tok \in Tokens]_vars

\* The steps of a sendLogout after the handler that started it returned: its
\* token read and the settling of its request.
LogoutSteps ==
  \E t \in tasks : t.kind = "logout" /\ (TokGot(t) \/ \E r \in Responses : Responded(t, r))

\* C12: the step that handles logout sets isAuthenticated false, empties the
\* cache, clears the timer handle and its interval and disarms the alarm, and
\* no later step of sendLogout, sent or not, touches any of these.
C12_LogoutIsLocal ==
  [][/\ (NextSignal("logout") /\ Deliver) =>
          /\ ~isAuthenticated'
          /\ lastURLMap' = EmptyMap
          /\ heartbeatIntervalId' = Null /\ intervals' = {}
          /\ ~alarmArmed'
     /\ LogoutSteps => UNCHANGED <<memVars, alarmArmed, storeVars>>]_vars

\* logout was just handled in an authenticated session whose cache held a
\* URL: the entry is erased and sendLogout has not yet read the token.
C12_Witness ==
  /\ \E url \in URLs : ErasedAfter(url, Cleared)
  /\ LogoutTask(TRUE) \in tasks
  /\ ~isAuthenticated /\ ~alarmArmed
(* --------------------------- server change ---------------------------- *)
\* The server of the SERVER_CHANGED signal handled last: the popup stores a
\* server and then signals it (storage.js:87-102), so with no such signal in
\* flight it is the stored one.
ServerSettled ==
  /\ serverConfig # NoCfg
  /\ \A i \in 1..Len(msgs) : msgs[i].type # "SERVER_CHANGED"

\* C13: once SERVER_CHANGED carrying a server was handled, every request
\* issued until the next SERVER_CHANGED targets that server.
C13_RequestsTargetServer ==
  [][\A t \in Issued : ServerSettled => t.base = serverConfig]_vars
\* C14: handling SERVER_CHANGED while authenticated stops and starts the
\* scheduler, leaving the alarm armed and exactly one fine interval live;
\* handling it while not authenticated leaves the handle, the intervals and
\* the alarm as they were.
C14_ServerChangeRestarts ==
  [][(NextSignal("SERVER_CHANGED") /\ Deliver) =>
       IF isAuthenticated
       THEN /\ alarmArmed'
            /\ Started'
            /\ intervals' = {heartbeatIntervalId'}
       ELSE UNCHANGED <<heartbeatIntervalId, intervals, alarmArmed>>]_vars

\* SERVER_CHANGED is handled next by an authenticated worker whose interval
\* is running: the handler stops and starts the scheduler.
C14_Witness ==
  /\ NextSignal("SERVER_CHANGED")
  /\ isAuthenticated /\ Started /\ alarmArmed

\* C15: handling SERVER_CHANGED leaves isAuthenticated, the stored token, the
\* stored device id, the dedup cache and the focus flag as they were.
C15_ServerChangeKeepsSession ==
  [][(NextSignal("SERVER_CHANGED") /\ Deliver) =>
       UNCHANGED <<isAuthenticated, authToken, deviceId, lastURLMap,
                   isWindowFocused>>]_vars

\* SERVER_CHANGED is handled next by an authenticated worker that has a URL
\* in its cache and knows its window to be unfocused.
C15_Witness ==
  /\ NextSignal("SERVER_CHANGED")
  /\ isAuthenticated /\ authToken # NoToken
  /\ HasEntry(Watched) /\ ~isWindowFocused
(* --------------------------- device identity -------------------------- *)
\* The calls of getOrCreateDeviceId whose result is fixed: the identifier was
\* generated (part_001:56) or already handed to the caller.
Decided == {t \in tasks : t.dev # NoId}

\* C16: any two calls of getOrCreateDeviceId of one run of the worker return
\* the same identifier, overlapping calls included.
C16_SameIdentifier ==
  \A a, b \in Decided : a.dev = b.dev

\* C17: once a valid UUID is stored under device_id, no step stores a
\* different value.
C17_StoredIdImmutable ==
  [][IsValidUUID(deviceId) => deviceId' = deviceId]_vars

\* The call of getOrCreateDeviceId made by the heartbeat t hands id to its
\* caller in this step: the request of t is issued with it.
Returns(t, id) ==
  t.kind = "hb" => [t EXCEPT !.pc = "resp", !.dev = id, !.base = API_BASE] \in tasks'

\* The call t generates a fresh valid UUID in this step and starts to write it.
Generates(t) ==
  \E n \in tasks' \ tasks :
    /\ n.pc = "set" /\ n.kind = t.kind
    /\ IsValidUUID(n.dev) /\ n.dev # deviceId
    /\ deviceId' = deviceId

\* C18 as stated: a stored value that does not match the UUID shape is
\* replaced by a fresh UUID, which is returned; one that matches is returned
\* as it is, with no write.
C18_InvalidReplaced ==
  [][/\ \A t \in tasks : DidGot(t) =>
            IF IsValidUUID(deviceId)
            THEN Returns(t, deviceId) /\ deviceId' = deviceId
            ELSE Generates(t)
     /\ \A t \in tasks : DidSet(t, TRUE) =>
            Returns(t, t.dev) /\ deviceId' = t.dev]_vars

\* C18 as amended: the stored value is judged after its surrounding blanks are
\* trimmed.  If what remains does not match the UUID shape, or nothing is
\* stored, a fresh UUID is generated, written (it replaces the stored value
\* unless the write fails) and returned; if it matches, it is returned in
\* trimmed form with no write.
C18_TrimmedInvalidReplaced ==
  [][/\ \A t \in tasks : DidGot(t) =>
            IF deviceId \in UUIDs \cup {PaddedId}
            THEN /\ Returns(t, IF deviceId = PaddedId THEN InstalledId ELSE deviceId)
                 /\ deviceId' = deviceId
            ELSE Generates(t)
     /\ \A t \in tasks, stored \in BOOLEAN : DidSet(t, stored) =>
            /\ Returns(t, t.dev)
            /\ deviceId' = IF stored THEN t.dev ELSE deviceId]_vars

\* A heartbeat was issued with the trimmed form of a stored id that has
\* surrounding blanks, and the stored value is as it was.
C18_Witness ==
  /\ deviceId = PaddedId
  /\ \E t \in tasks : t.kind = "hb" /\ t.pc = "resp" /\ t.dev = InstalledId

\* C19: every heartbeat and /active request carries a valid UUID and is
\* issued by the step in which its call of getOrCreateDeviceId resolves.
C19_RequestsCarryValidId ==
  [][\A t \in Issued :
       t.kind \in {"hb", "active"} =>
         /\ IsValidUUID(t.dev)
         /\ \E c \in tasks \ tasks' :
              /\ c.kind = t.kind /\ c.pc \in {"did", "set"}
              /\ DidGot(c) \/ \E stored \in BOOLEAN : DidSet(c, stored)]_vars

\* A request carries a generated UUID while the storage still holds the
\* invalid value: the write of the generated id failed.
C19_Witness ==
  /\ deviceId = BadId
  /\ \E t \in tasks : t.pc = "resp" /\ t.kind \in {"hb", "active"} /\ IsValidUUID(t.dev)
(* ------------------------ transitions of the gate --------------------- *)
\* C20: within one run of the worker isAuthenticated turns true only when
\* login-success is handled or the start-up token read finds a token, and
\* turns false only when logout is handled; no tick, tab event, focus change,
\* SERVER_CHANGED signal or settling request changes it.  A worker the host
\* starts anew begins with the flag false (part_001:28).
C20_AuthTransitions ==
  [][/\ (~isAuthenticated /\ isAuthenticated') =>
          \/ NextSignal("login-success") /\ Deliver
          \/ StartFound # NoToken /\ StartRead
     /\ (isAuthenticated /\ ~isAuthenticated') =>
          \/ NextSignal("logout") /\ Deliver
          \/ Restart \/ Install]_vars

\* The start-up token read has set the flag of a restarted worker, which has
\* a SERVER_CHANGED signal to handle and a request in flight.
C20_Witness ==
  /\ isAuthenticated /\ ~startRead /\ ~Started
  /\ NextSignal("SERVER_CHANGED")
  /\ \E t \in tasks : t.pc = "resp"
(* ------------------------- flag and stored token ---------------------- *)
\* No login-success or logout signal of the popup awaits handling.
NoAuthSignal ==
  \A i \in 1..Len(msgs) : msgs[i].type \notin {"login-success", "logout"}

\* C21: once the start-up read has called back and no login or logout signal
\* is pending, isAuthenticated is true iff a token is stored.
C21_FlagMatchesToken ==
  (~startRead /\ NoAuthSignal) => (isAuthenticated <=> authToken # NoToken)

(* --------------------------- failing requests ------------------------- *)
\* C22: a heartbeat whose request fails (fetch rejects or the status is not a
\* success) is caught by the caller of sendHeartbeat on every path, so no
\* rejection is left unhandled, and the failure leaves the timer handle, the
\* fine interval, the durable alarm, isAuthenticated and the dedup cache as
\* they were.
C22_FailureIsCaught ==
  [][\A t \in tasks, r \in Responses :
       (t.kind = "hb" /\ heartbeatThrows(r) /\ Responded(t, r))
       => /\ uncaught' = uncaught
          /\ UNCHANGED <<heartbeatIntervalId, intervals, alarmArmed,
                         isAuthenticated, lastURLMap>>]_vars

\* data.response is a string (part_001:440).
IsString(f) == f \notin {Missing, NonString}

\* The /active request of a tab report settles with r in this step.
ActiveSettles(t, r) ==
  t.kind = "active" /\ t.src = "tab" /\ Responded(t, r)

\* C23: when the /active request of a tab report settles, a notification is
\* rendered iff the body parsed, show_notification is truthy and response is
\* a string whose trimmed value is not empty, and its text is that trimmed
\* value; no other step renders a notification.
C23_NotifiesIff ==
  [][/\ \A t \in tasks, r \in Responses :
          ActiveSettles(t, r)
          => notifications' =
               IF /\ r.net # "reject" /\ r.parsed /\ r.show
                  /\ IsString(r.response) /\ trim(r.response) # ""
               THEN notifications \cup {trim(r.response)}
               ELSE notifications
     /\ notifications' # notifications
          => \E t \in tasks, r \in Responses : ActiveSettles(t, r)]_vars

\* C23 witness: a notification with the trimmed text of a response was
\* rendered.
C23_Witness == "hi" \in notifications

(* ------------------------------ focus --------------------------------- *)
\* C24: a focus change in an authenticated session sets isWindowFocused to
\* false iff the focus went to no window, starts a heartbeat and an /active
\* chain and leaves the dedup cache alone; the heartbeat carries the new focus
\* value and no URL, and so does the /active request when it is issued.
C24_FocusPairCarriesValue ==
  [][/\ \A windowId \in {"WINDOW_ID_NONE", "w1"} :
          (isAuthenticated /\ FocusChanged(windowId))
          => /\ isWindowFocused' = (windowId # "WINDOW_ID_NONE")
             /\ HbTok("focus", NoURL, FocStr(windowId # "WINDOW_ID_NONE")) \in tasks'
             /\ \E n \in tasks' : n.kind = "active" /\ n.src = "focus"
             /\ lastURLMap' = lastURLMap
     /\ \A t \in tasks :
          (t.kind = "active" /\ t.src = "focus" /\ t.pc = "did" /\ DidGot(t))
          => \A n \in tasks' \ tasks :
               n.pc = "resp" => (n.foc = t.foc /\ n.url = NoURL)]_vars

(* ------------------------------ two ticks ----------------------------- *)
\* C25: the durable alarm fires whenever it is armed, the fine interval
\* running or not; an alarm firing and a fine tick each start a heartbeat and
\* leave every task in flight as it is.
C25_TicksIndependent ==
  [][/\ (alarmArmed /\ Room(1)) => ENABLED Alarm
     /\ Alarm => (HbWin("alarm") \in tasks' /\ tasks \subseteq tasks')
     /\ FineTick => (HbWin("fine") \in tasks' /\ tasks \subseteq tasks')]_vars

\* C25 witness: with the fine interval running, a heartbeat started by the
\* alarm and one started by the fine tick are in flight at once.
C25_Witness ==
  /\ Started
  /\ \E a, f \in tasks :
       a.kind = "hb" /\ a.src = "alarm" /\ f.kind = "hb" /\ f.src = "fine"

(* --------------------------- device identity -------------------------- *)
\* C26: once a call of getOrCreateDeviceId has returned a generated
\* identifier whose write failed, a heartbeat that calls getOrCreateDeviceId
\* afterwards, in the same run of the worker, finds that identifier.
C26_FallbackIdReused ==
  [][\A a, c \in tasks :
       (/\ a.pc = "resp" /\ a.dev # NoId /\ storedDeviceId(deviceId) = NoId
        /\ c.kind = "hb" /\ c.pc = "tok" /\ authToken # NoToken /\ TokGot(c))
       => storedDeviceId(deviceId') = a.dev]_vars

(* ------------------------------ wake-up ------------------------------- *)
\* C27: after a restart of the worker of an authenticated installation, once
\* the heartbeat started by the durable alarm has been sent and answered, the
\* fine interval is running again.
C27_AlarmResumesInterval ==
  [][\A t \in tasks :
       (/\ t.kind = "hb" /\ t.src = "alarm" /\ t.pc = "resp"
        /\ isAuthenticated /\ authToken # NoToken
        /\ \E r \in Responses : Responded(t, r))
       => heartbeatIntervalId' # Null]_vars

(* ---------------------------- content capture ------------------------- *)
\* The content chain t of a tab report fails in this step: the script gave
\* an error or no result, the token is missing, the fetch rejected or the
\* body did not parse.
ChainFails(t) ==
  /\ t.kind = "active" /\ t.src = "tab"
  /\ \/ ScriptGot(t, FALSE)
     \/ t.pc = "did" /\ t.tok = NoToken /\ DidGot(t)
     \/ \E r \in Responses : (r.net = "reject" \/ ~r.parsed) /\ Responded(t, r)

\* C28: a failure of the content chain of a tab report ends that chain only:
\* every other task, the heartbeat of the report included, stays in flight,
\* the dedup cache keeps its entries, and nothing is rendered or left
\* unhandled.
C28_ChainFailureSwallowed ==
  [][\A t \in tasks :
       ChainFails(t)
       => /\ tasks' = tasks \ {t}
          /\ lastURLMap' = lastURLMap
          /\ hist' = hist
          /\ UNCHANGED <<isAuthenticated, notifications, uncaught>>]_vars

\* C28 witness: the content chain of a report found no token while the
\* heartbeat of the same report is in flight and the cache holds its URL.
C28_Witness ==
  /\ \E t \in tasks : t.kind = "active" /\ t.src = "tab"
                      /\ t.pc = "did" /\ t.tok = NoToken
  /\ \E h \in tasks : h.kind = "hb" /\ h.src = "tab"
                      /\ h.url = lastURLMap[Watched]

\* C29: the step of processTabUpdate that starts the heartbeat and the
\* content chain of a report has written (tabId, url) to the dedup cache, and
\* both start before their first await: no request of the report is issued in
\* that step.
C29_CacheWrittenFirst ==
  [][\A tabId \in Tabs, url \in URLs \cup {NoURL} :
       (Invokes(tabId, url) /\ \E n \in tasks' \ tasks : n.kind \in {"hb", "active"})
       => /\ lastURLMap'[tabId] = url
          /\ \A n \in tasks' \ tasks : n.pc \in {"tok", "script"}]_vars

\* C29 witness: the heartbeat and the content chain of a report have started,
\* neither has issued its request, and the cache holds the reported URL.
C29_Witness ==
  /\ ScriptTask \in tasks
  /\ \E h \in tasks : /\ h.kind = "hb" /\ h.src = "tab" /\ h.pc = "tok"
                      /\ h.url \in URLs /\ lastURLMap[Watched] = h.url

(* ------------------------------ in flight ----------------------------- *)
\* C30: the handling of logout keeps every heartbeat that is in flight; a
\* heartbeat that holds a token goes on to issue its request whether the
\* session is still authenticated or not, and the settling of a heartbeat
\* request, success or failure, changes no variable of the worker, no alarm
\* and nothing stored.
C30_InFlightSurvivesLogout ==
  [][/\ (NextSignal("logout") /\ Deliver)
          => \A t \in tasks : t.kind = "hb" => t \in tasks'
     /\ \A t \in tasks :
          (t.kind = "hb" /\ t.pc = "did" /\ DidGot(t))
          => \E n \in tasks' : n.kind = "hb" /\ n.pc = "resp" /\ n.tok = t.tok
     /\ \A t \in tasks, r \in Responses :
          (t.kind = "hb" /\ Responded(t, r))
          => UNCHANGED <<memVars, alarmArmed, storeVars, msgs>>]_vars

\* C30 witness: after the logout was handled, a heartbeat that passed the
\* gate before it has its request in flight.
C30_Witness ==
  /\ ~isAuthenticated /\ ~alarmArmed /\ heartbeatIntervalId = Null
  /\ authToken = NoToken /\ msgs = <<>>
  /\ \E t \in tasks : t.kind = "hb" /\ t.pc = "resp" /\ t.tok # NoToken


(* ------------------------------ open tabs ----------------------------- *)
\* C31: every key of the dedup cache is the id of a tab that is open.
C31_KeysAreOpenTabs ==
  \A tabId \in Tabs : HasEntry(tabId) => tabId \in openTabs

(* ----------------------------- invariants ----------------------------- *)
\* C32: the fine interval runs only while authenticated: a timer handle, or a
\* live interval of the worker, implies isAuthenticated.
C32_IntervalOnlyWhileAuthenticated ==
  (heartbeatIntervalId # Null \/ intervals # {}) => isAuthenticated

\* C32 witness: a session that had its interval running was logged out, and
\* the logout stopped the interval.
C32_Witness ==
  /\ ~isAuthenticated /\ heartbeatIntervalId = Null /\ intervals = {}
  /\ \E t \in tasks : t.kind = "logout" /\ t.src = "session"

\* C33: while isAuthenticated is false the dedup cache has no entry.
C33_CacheEmptyWhileUnauthenticated ==
  ~isAuthenticated => lastURLMap = EmptyMap

\* C33 witness: the logout erased the entry of the watched tab and a tab
\* lookup is still pending in the unauthenticated worker.
C33_Witness ==
  /\ ~isAuthenticated
  /\ Len(hist) >= 2 /\ hist[Len(hist)] = Cleared /\ hist[Len(hist) - 1] \in URLs
  /\ \E t \in tasks : t.kind = "tabget" /\ t.pc = "get"
  /\ \E t \in tasks : t.kind = "logout"

\* C34: the /active request of a focus change handled in an authenticated
\* session is issued with the focus value computed for that change, the one
\* its heartbeat carries.
C34_FocusPairAgrees ==
  [][\A t \in tasks :
       (/\ t.kind = "active" /\ t.pc = "did" /\ t.tok # NoToken
        /\ t.src = "focus" /\ DidGot(t))
       => [t EXCEPT !.pc = "resp", !.dev = storedDeviceId(deviceId),
                    !.base = API_BASE] \in tasks']_vars

\* C35: the settling of an /active request of a tab report renders no
\* notification once the logout has been handled.
C35_NoNotificationAfterLogout ==
  [][\A t \in tasks, r \in Responses :
       (ActiveSettles(t, r) /\ ~isAuthenticated)
       => notifications' = notifications]_vars

====
